---- MODULE Spec2Model ----
(***************************************************************************)
(* Playback sequencer and segment list of the TTS audio generator          *)
(* (src/App.tsx, first App component, lines 8-196).                        *)
(*                                                                         *)
(* The program is a single-threaded event-loop program.  A handler runs    *)
(* to its first real suspension point without interleaving: an `await` on  *)
(* decodeAudioToBuffer (an async function with no await inside) resumes in *)
(* a microtask, before any other task, so playBlock and each iteration of  *)
(* the playAllSequentially loop are one step each.  The real suspension    *)
(* points are `await playPromise` (the clip's ended event) and             *)
(* `await generateTTS` (the remote call).  AudioBufferSourceNode.stop()    *)
(* does not run onended synchronously: the ended event is a later task.    *)
(*                                                                         *)
(* The byte-level functions of src/utils/audioUtils.ts are operators on    *)
(* sequences of bytes; UtilSpec applies them to inputs drawn from bounded  *)
(* sets and records each call with its result in `call`.                   *)
(***************************************************************************)
EXTENDS Integers, Sequences, FiniteSets, TLC

\* ---- bounds of the model ----
MaxBlocks == 3      \* segments in the list (the preview entry comes on top)
MaxId == 4          \* supply of uuidv4() identifiers
MaxSources == 4     \* AudioBufferSourceNodes ever created
MaxOps == 3         \* user operations issued in one behaviour
MaxLiveOps == 2     \* user operations issued in one behaviour of LiveSpec
MaxRequests == 1    \* generateTTS calls in flight at once
MaxFaultOps == 2    \* user operations on a composition with corrupt buffers
MaxPcmLen == 6      \* bytes of a buffer handed to decodeAudioToBuffer
MaxChannels == 2    \* numChannels handed to decodeAudioToBuffer
MaxPayloadLen == 3  \* bytes of a short payload handed to createWavBlob
MaxCodecLen == 4    \* bytes of a buffer handed to encode
MaxSegments == 3    \* segments in a list handed to generateZip or concatenateToSingleWav

\* ---- values ----
PreviewId == 0            \* the id 'preview' of App.tsx:182
NoId == -1                \* addBlock() without afterId; an id not in the list
Null == 0                 \* currentAudioSource.current === null
NoAudio == "none"         \* audioData / audioUrl undefined
NoError == "none"         \* error undefined
PreviewText == "p"        \* previewText of App.tsx:181
Texts == {"", "a", "b"}   \* texts a user types; "" is blank

VARIABLES
  blocks,              \* useState<AudioBlock[]>                      App.tsx:9
  isPlayingAll,        \* useState(false)                             App.tsx:18
  currentAudioSource,  \* useRef<AudioBufferSourceNode | null>        App.tsx:19
  sources,             \* every source node created so far, in creation order
  loops,               \* every playAllSequentially run (its closure state)
  requests,            \* generateTTS calls in flight
  nextId,              \* next value of uuidv4()
  opsLeft,             \* user operations still to be issued
  lastOp,              \* the step taken last: <<handler, argument>>
  call                 \* the last call of a function of audioUtils.ts

vars == <<blocks, isPlayingAll, currentAudioSource, sources, loops, requests,
          nextId, opsLeft, lastOp, call>>

\* ---- src/utils/audioUtils.ts ----

\* no function of audioUtils.ts has been called
NoCall == [fn |-> "none", arg |-> << >>, out |-> << >>]

\* all sequences over S of length 0..n
SeqsUpTo(S, n) == UNION {[1..k -> S] : k \in 0..n}

\* ---- decodeAudioToBuffer (audioUtils.ts:75-92) ----

\* the divisor of audioUtils.ts:88; a sample of the AudioBuffer is the
\* fraction <<numerator, SampleScale>> (the quotient is exact in float32)
SampleScale == 32768

\* dataInt16[k] of `new Int16Array(data.buffer)`, k from 0: the bytes
\* 2k and 2k+1 of the buffer, low byte first, as a signed 16-bit integer
Int16At(data, k) ==
  LET u == data[2 * k + 1] + 256 * data[2 * k + 2]
  IN IF u >= 32768 THEN u - 65536 ELSE u

\* ctx.createBuffer(numChannels, frameCount, sampleRate) takes its length
\* as an unsigned long: sampleCount / numChannels is truncated
BufferLength(sampleCount, numChannels) == sampleCount \div numChannels

\* `new Int16Array(data.buffer)` throws a RangeError when the byte length is
\* not a multiple of 2, and createBuffer throws a NotSupportedError for a
\* length of 0 frames; otherwise channelData[i] of every channel is set for
\* the i below frameCount that the buffer holds (a write past the end of a
\* Float32Array is ignored)
DecodeAudioToBuffer(data, numChannels) ==
  IF Len(data) % 2 # 0
  THEN [error |-> "RangeError", channels |-> << >>]
  ELSE LET sampleCount == Len(data) \div 2
           length == BufferLength(sampleCount, numChannels)
       IN IF length = 0
          THEN [error |-> "NotSupportedError", channels |-> << >>]
          ELSE [error |-> "none",
                channels |->
                  [ch \in 1..numChannels |->
                    [i \in 1..length |->
                      <<Int16At(data, (i - 1) * numChannels + (ch - 1)),
                        SampleScale>>]]]

\* the bytes the decoder is tried on: they spell the 16-bit values 0, 32767,
\* -32768 and -1, among others
SampleBytes == {0, 127, 128, 255}

\* the buffers decodeAudioToBuffer is tried on
PcmBuffers == SeqsUpTo(SampleBytes, MaxPcmLen)

\* ---- createWavBlob (audioUtils.ts:32-64) ----

\* the UTF-16 code unit string.charCodeAt(i) of the characters the header uses
CharCodeAt ==
  ("R" :> 82) @@ ("I" :> 73) @@ ("F" :> 70) @@ ("W" :> 87) @@ ("A" :> 65) @@
  ("V" :> 86) @@ ("E" :> 69) @@ ("f" :> 102) @@ ("m" :> 109) @@ ("t" :> 116) @@
  (" " :> 32) @@ ("d" :> 100) @@ ("a" :> 97)

HeaderSize == 44
DefaultSampleRate == 24000

\* new DataView(new ArrayBuffer(44)): 44 zero bytes
NewHeader == [k \in 1..HeaderSize |-> 0]

\* view.setUint8(offset, value)
SetUint8(view, offset, value) == [view EXCEPT ![offset + 1] = value % 256]

\* writeString(view, offset, string): one byte per character
RECURSIVE WriteString(_, _, _)
WriteString(view, offset, string) ==
  IF string = << >> THEN view
  ELSE WriteString(SetUint8(view, offset, CharCodeAt[Head(string)]),
                   offset + 1, Tail(string))

\* variant: the four bytes written high byte first
SetUint32_BigEndian(view, offset, value) ==
  [view EXCEPT ![offset + 4] = value % 256,
               ![offset + 3] = (value \div 256) % 256,
               ![offset + 2] = (value \div 65536) % 256,
               ![offset + 1] = (value \div 16777216) % 256]

\* view.setUint32(offset, value, true): little-endian; the four low bytes
\* of the value, which is the value modulo 2^32
SetUint32(view, offset, value) ==
  [view EXCEPT ![offset + 1] = value % 256,
               ![offset + 2] = (value \div 256) % 256,
               ![offset + 3] = (value \div 65536) % 256,
               ![offset + 4] = (value \div 16777216) % 256]

\* view.setUint16(offset, value, true): little-endian; the two low bytes
\* of the value, which is the value modulo 2^16
SetUint16(view, offset, value) ==
  [view EXCEPT ![offset + 1] = value % 256,
               ![offset + 2] = (value \div 256) % 256]

\* the header after the writes of audioUtils.ts:36-61, in their order
WavHeader(length, sampleRate) ==
  LET h1 == WriteString(NewHeader, 0, <<"R", "I", "F", "F">>)
      h2 == SetUint32(h1, 4, 36 + length)
      h3 == WriteString(h2, 8, <<"W", "A", "V", "E">>)
      h4 == WriteString(h3, 12, <<"f", "m", "t", " ">>)
      h5 == SetUint32(h4, 16, 16)
      h6 == SetUint16(h5, 20, 1)
      h7 == SetUint16(h6, 22, 1)
      h8 == SetUint32(h7, 24, sampleRate)
      h9 == SetUint32(h8, 28, sampleRate * 2)
      h10 == SetUint16(h9, 32, 2)
      h11 == SetUint16(h10, 34, 16)
      h12 == WriteString(h11, 36, <<"d", "a", "t", "a">>)
  IN SetUint32(h12, 40, length)

\* variant: the blob holds the header only
CreateWavBlob_HeaderOnly(pcmData, sampleRate) ==
  [bytes |-> WavHeader(Len(pcmData), sampleRate),
   type |-> "audio/wav",
   pcmData |-> pcmData]

\* new Blob([header, pcmData], {type: 'audio/wav'}): the parts in order;
\* pcmData is the argument as the call leaves it (it is only read)
CreateWavBlob(pcmData, sampleRate) ==
  [bytes |-> WavHeader(Len(pcmData), sampleRate) \o pcmData,
   type |-> "audio/wav",
   pcmData |-> pcmData]

\* a buffer of n bytes counting up from `from`, modulo 256
Ramp(n, from) == [k \in 1..n |-> (from + k) % 256]

\* the payloads createWavBlob is tried on: every short one, and one of
\* 1000 bytes
Payloads == SeqsUpTo(SampleBytes, MaxPayloadLen) \cup {Ramp(1000, 0)}

\* the sample rates createWavBlob is tried on
SampleRates == {8000, 16000, DefaultSampleRate, 44100}

\* ---- segments as generateZip and concatenateToSingleWav see them ----

\* block.audioData is undefined, or a Uint8Array: << >> stands for undefined
\* and <<bytes>> for the Uint8Array holding bytes (which may be empty)
Undefined == << >>
Uint8Array(bytes) == <<bytes>>

\* `if (block.audioData)`: every Uint8Array is truthy, the empty one too
Truthy(audioData) == audioData # Undefined

\* block.audioData?.length || 0
LengthOrZero(audioData) == IF Truthy(audioData) THEN Len(audioData[1]) ELSE 0

\* blocks.filter(b => b.audioData)
RECURSIVE FilterGenerated(_)
FilterGenerated(bs) ==
  IF bs = << >> THEN << >>
  ELSE IF Truthy(Head(bs).audioData)
       THEN <<Head(bs)>> \o FilterGenerated(Tail(bs))
       ELSE FilterGenerated(Tail(bs))

\* ---- concatenateToSingleWav (audioUtils.ts:114-127) ----

\* blocks.reduce((acc, b) => acc + (b.audioData?.length || 0), 0)
RECURSIVE TotalLength(_)
TotalLength(bs) ==
  IF bs = << >> THEN 0
  ELSE LengthOrZero(Head(bs).audioData) + TotalLength(Tail(bs))

\* variant: the bytes are written at the start of result
ResultSet_AtStart(result, data, offset) ==
  [k \in 1..Len(result) |-> IF k <= Len(data) THEN data[k] ELSE result[k]]

\* result.set(data, offset): the bytes of data written from offset on
ResultSet(result, data, offset) ==
  [k \in 1..Len(result) |->
     IF k > offset /\ k <= offset + Len(data) THEN data[k - offset]
     ELSE result[k]]

\* the forEach of audioUtils.ts:119-124, from block i on
RECURSIVE CopyBlocks(_, _, _, _)
CopyBlocks(bs, i, result, offset) ==
  IF i > Len(bs) THEN result
  ELSE IF Truthy(bs[i].audioData)
       THEN CopyBlocks(bs, i + 1, ResultSet(result, bs[i].audioData[1], offset),
                       offset + Len(bs[i].audioData[1]))
       ELSE CopyBlocks(bs, i + 1, result, offset)

ConcatenateToSingleWav(bs) ==
  LET totalLength == TotalLength(bs)
      result == [k \in 1..totalLength |-> 0]
  IN CreateWavBlob(CopyBlocks(bs, 1, result, 0), DefaultSampleRate)

\* ---- generateZip (audioUtils.ts:97-109), downloadZip (App.tsx:158-167) ----

\* `audio_${index + 1}.wav`, index from 0
EntryName(index) == <<"audio_", index + 1, ".wav">>

\* zip.file(name, blob): the entry of that name is added or replaced
ZipFile(zip, name, blob) ==
  IF \E e \in 1..Len(zip) : zip[e].name = name
  THEN [e \in 1..Len(zip) |->
          IF zip[e].name = name THEN [name |-> name, data |-> blob] ELSE zip[e]]
  ELSE Append(zip, [name |-> name, data |-> blob])

\* the forEach of audioUtils.ts:101-106, from index on (index from 0)
RECURSIVE ZipBlocks(_, _, _)
ZipBlocks(bs, index, zip) ==
  IF index >= Len(bs) THEN zip
  ELSE IF Truthy(bs[index + 1].audioData)
       THEN ZipBlocks(bs, index + 1,
                      ZipFile(zip, EntryName(index),
                              CreateWavBlob(bs[index + 1].audioData[1],
                                            DefaultSampleRate)))
       ELSE ZipBlocks(bs, index + 1, zip)

\* the archive: its entries in the order they were added
GenerateZip(bs) == ZipBlocks(bs, 0, << >>)

\* variant: the whole list is packaged
DownloadZip_Unfiltered(bs) ==
  IF FilterGenerated(bs) = << >>
  THEN [saved |-> FALSE, zip |-> << >>]
  ELSE [saved |-> TRUE, zip |-> GenerateZip(bs)]

\* downloadZip with the list bs on screen: nothing is saved when no segment
\* has a buffer, otherwise the archive of the segments that have one
DownloadZip(bs) ==
  LET generated == FilterGenerated(bs)
  IN IF generated = << >>
     THEN [saved |-> FALSE, zip |-> << >>]
     ELSE [saved |-> TRUE, zip |-> GenerateZip(generated)]

\* the buffers a segment is tried with: none, the empty one, A (3 bytes),
\* B (5 bytes), one of 100 and one of 200 bytes
SegmentAudio ==
  {Undefined, Uint8Array(<< >>), Uint8Array(<<1, 2, 3>>),
   Uint8Array(<<4, 5, 6, 7, 8>>), Uint8Array(Ramp(100, 0)),
   Uint8Array(Ramp(200, 100))}

\* the lists of segments the functions are tried on; ids are the positions
SegmentLists ==
  UNION {{[i \in 1..n |-> [id |-> i, audioData |-> f[i]]] :
            f \in [1..n -> SegmentAudio]} : n \in 0..MaxSegments}

\* ---- encode (audioUtils.ts:7-14), decode (audioUtils.ts:19-27) ----

\* the base64 alphabet of btoa and atob: the character of value v is
\* Alphabet[v + 1]
Alphabet ==
  <<"A", "B", "C", "D", "E", "F", "G", "H", "I", "J", "K", "L", "M",
    "N", "O", "P", "Q", "R", "S", "T", "U", "V", "W", "X", "Y", "Z",
    "a", "b", "c", "d", "e", "f", "g", "h", "i", "j", "k", "l", "m",
    "n", "o", "p", "q", "r", "s", "t", "u", "v", "w", "x", "y", "z",
    "0", "1", "2", "3", "4", "5", "6", "7", "8", "9", "+", "/">>

Pad == "="

\* the character of the 6-bit value v
CharOf(v) == Alphabet[v + 1]

\* the 6-bit value of a character of the alphabet
ValueOf(c) == (CHOOSE k \in 1..Len(Alphabet) : Alphabet[k] = c) - 1

\* btoa(binary), binary a string of code units 0..255 given by its code
\* units: 3 bytes give 4 characters, and a last group of 1 or 2 bytes is
\* padded with "="
RECURSIVE Btoa(_)
Btoa(binary) ==
  IF Len(binary) = 0 THEN << >>
  ELSE IF Len(binary) = 1
  THEN <<CharOf(binary[1] \div 4), CharOf((binary[1] % 4) * 16), Pad, Pad>>
  ELSE IF Len(binary) = 2
  THEN <<CharOf(binary[1] \div 4),
         CharOf((binary[1] % 4) * 16 + binary[2] \div 16),
         CharOf((binary[2] % 16) * 4), Pad>>
  ELSE <<CharOf(binary[1] \div 4),
         CharOf((binary[1] % 4) * 16 + binary[2] \div 16),
         CharOf((binary[2] % 16) * 4 + binary[3] \div 64),
         CharOf(binary[3] % 64)>> \o Btoa(SubSeq(binary, 4, Len(binary)))

\* atob drops up to two "=" from the end of a string whose length is a
\* multiple of 4
StripPadding(base64) ==
  LET n == Len(base64)
  IN IF n % 4 = 0 /\ n >= 2 /\ base64[n] = Pad /\ base64[n - 1] = Pad
     THEN SubSeq(base64, 1, n - 2)
     ELSE IF n % 4 = 0 /\ n >= 1 /\ base64[n] = Pad
          THEN SubSeq(base64, 1, n - 1)
          ELSE base64

\* the bytes spelled by characters of the alphabet: 4 characters give 3
\* bytes, a last group of 2 gives 1 byte and a last group of 3 gives 2
RECURSIVE BytesOf(_)
BytesOf(chars) ==
  IF Len(chars) < 2 THEN << >>
  ELSE LET v1 == ValueOf(chars[1])
           v2 == ValueOf(chars[2])
           b1 == v1 * 4 + v2 \div 16
       IN IF Len(chars) = 2 THEN <<b1>>
          ELSE LET v3 == ValueOf(chars[3])
                   b2 == (v2 % 16) * 16 + v3 \div 4
               IN IF Len(chars) = 3 THEN <<b1, b2>>
                  ELSE <<b1, b2, (v3 % 4) * 64 + ValueOf(chars[4])>>
                         \o BytesOf(SubSeq(chars, 5, Len(chars)))

\* variant: the padding is read as characters of value 0
Atob_PaddingAsZero(base64) ==
  BytesOf([k \in 1..Len(base64) |->
             IF base64[k] = Pad THEN CharOf(0) ELSE base64[k]])

\* atob(base64) for a string btoa can return, as the code units of the
\* binary string
Atob(base64) == BytesOf(StripPadding(base64))

\* encode: binary += String.fromCharCode(bytes[i]) for every byte, then btoa
Encode(bytes) == Btoa([i \in 1..Len(bytes) |-> bytes[i]])

\* decode: bytes[i] = binaryString.charCodeAt(i) for every code unit of atob
Decode(base64) ==
  LET binaryString == Atob(base64)
  IN [i \in 1..Len(binaryString) |-> binaryString[i]]

\* the buffers the codec is tried on: every buffer of one byte, and the
\* buffers of up to MaxCodecLen bytes over CodecBytes
CodecBytes == SampleBytes \cup {1, 65}
CodecBuffers == SeqsUpTo(CodecBytes, MaxCodecLen) \cup [1..1 -> 0..255]

\* ---- end of audioUtils.ts ----

\* ---- the segment list ----

\* { id: uuidv4(), text: '', isGenerating: false, isPlaying: false }
NewBlock(id) ==
  [id |-> id, text |-> "", audioData |-> NoAudio, audioUrl |-> NoAudio,
   isGenerating |-> FALSE, isPlaying |-> FALSE, error |-> NoError]

\* a segment after a successful generation from text t
GeneratedBlock(id, t) ==
  [NewBlock(id) EXCEPT !.text = t, !.audioData = t, !.audioUrl = t]

\* a buffer generateTTS returned with an odd number of bytes
Corrupt == "x"

\* a segment whose generation returned a corrupt buffer
CorruptBlock(id, t) ==
  [NewBlock(id) EXCEPT !.text = t, !.audioData = Corrupt, !.audioUrl = Corrupt]

\* the bytes of the buffer a segment holds
Pcm(audioData) == IF audioData = Corrupt THEN <<0>> ELSE <<0, 0, 255, 127>>

\* `await decodeAudioToBuffer(audioData, ctx)` rejects (App.tsx:45, 73)
DecodeThrows(audioData) ==
  DecodeAudioToBuffer(Pcm(audioData), 1).error # "none"

\* { id: 'preview', text: previewText, isGenerating: true, isPlaying: false }
PreviewBlock ==
  [NewBlock(PreviewId) EXCEPT !.text = PreviewText, !.isGenerating = TRUE]

\* text.trim() is non-empty
NonBlank(t) == t # ""

\* { ...b, field: value, ... }
Spread(b, upd) ==
  [f \in DOMAIN b |-> IF f \in DOMAIN upd THEN upd[f] ELSE b[f]]

\* prev.map(b => b.id === id ? { ...b, <upd> } : b)
MapId(bs, id, upd) ==
  [i \in 1..Len(bs) |-> IF bs[i].id = id THEN Spread(bs[i], upd) ELSE bs[i]]

\* prev.filter(b => b.id !== id)
FilterOutId(bs, id) ==
  LET Keep(b) == b.id # id IN SelectSeq(bs, Keep)

\* blocks.findIndex(b => b.id === id), 1-based; 0 when absent (-1 in the code)
FindIndex(bs, id) ==
  IF \E i \in 1..Len(bs) : bs[i].id = id
  THEN CHOOSE i \in 1..Len(bs) :
         /\ bs[i].id = id
         /\ \A j \in 1..(i - 1) : bs[j].id # id
  ELSE 0

\* blocks.find(b => b.id === id)?.audioData is truthy
HasAudioData(bs, id) ==
  /\ FindIndex(bs, id) # 0
  /\ bs[FindIndex(bs, id)].audioData # NoAudio

SetPlayingTrue == [isPlaying |-> TRUE]
SetPlayingFalse == [isPlaying |-> FALSE]

\* ---- stopAllPlayback, as functions of the state it touches ----

\* currentAudioSource.current.stop(): a playing node stops and its ended
\* event becomes pending; stop() on a node that already ended does nothing
StopCurrent(srcs, cur) ==
  IF cur # Null /\ srcs[cur].st = "playing"
  THEN [srcs EXCEPT ![cur].st = "stopped"]
  ELSE srcs

\* setBlocks(prev => prev.map(b => ({ ...b, isPlaying: false })))
ClearPlaying(bs) == [i \in 1..Len(bs) |-> Spread(bs[i], SetPlayingFalse)]

\* a run of playAllSequentially that is still in its loop when handler `by`
\* runs stopAllPlayback has been interrupted by it (history, not program state)
MarkInterrupted(lps, by) ==
  [i \in 1..Len(lps) |->
     IF lps[i].done THEN lps[i]
     ELSE [lps[i] EXCEPT !.interruptedBy = @ \cup {by}]]

\* ---- playAllSequentially helpers ----

\* blocks.filter(b => b.audioData), kept as the closure's {id, audioData}
PlayableBlocks(bs) ==
  LET Has(b) == b.audioData # NoAudio
      sel == SelectSeq(bs, Has)
  IN [i \in 1..Len(sel) |-> [id |-> sel[i].id, audioData |-> sel[i].audioData]]

RECURSIVE ClipsToCome(_)
\* source nodes the runs in progress will still create if nothing stops them
ClipsToCome(lps) ==
  IF lps = << >> THEN 0
  ELSE (IF Head(lps).done THEN 0 ELSE Len(Head(lps).playable) - Head(lps).i)
       + ClipsToCome(Tail(lps))

PreviewsInFlight ==
  Cardinality({i \in 1..Len(requests) : requests[i].kind = "preview"})

\* room for n more source nodes within MaxSources
SourceRoom(n) ==
  Len(sources) + ClipsToCome(loops) + PreviewsInFlight + n <= MaxSources

NewSource(kind, id, loop) ==
  [kind |-> kind, id |-> id, loop |-> loop, st |-> "playing"]

IsActive(s) == sources[s].st = "playing"
ActiveSources == {s \in 1..Len(sources) : IsActive(s)}

\* ---- Init: the state after construction, or a composition the user has
\* ---- already typed and generated (no playback, no request in flight)
InitBlocks ==
  UNION {
    {bs \in [1..n -> {NewBlock(i) : i \in 1..n} \cup
                     {GeneratedBlock(i, "a") : i \in 1..n}] :
       \A i \in 1..n : bs[i].id = i}
    : n \in 1..MaxBlocks}

InitWith(ops) ==
  /\ blocks \in InitBlocks
  /\ isPlayingAll = FALSE
  /\ currentAudioSource = Null
  /\ sources = << >>
  /\ loops = << >>
  /\ requests = << >>
  /\ nextId = Len(blocks) + 1
  /\ opsLeft = ops
  /\ lastOp = <<"init", NoId>>
  /\ call = NoCall

Init == InitWith(MaxOps)

\* every user operation spends one unit of the budget
UserOp(name, arg) ==
  /\ opsLeft > 0
  /\ opsLeft' = opsLeft - 1
  /\ lastOp' = <<name, arg>>
  /\ UNCHANGED call

\* ---- stopAllPlayback (App.tsx:29-36) ----
StopAllPlayback(by) ==
  /\ sources' = StopCurrent(sources, currentAudioSource)
  /\ currentAudioSource' = Null
  /\ isPlayingAll' = FALSE
  /\ blocks' = ClearPlaying(blocks)
  /\ loops' = MarkInterrupted(loops, by)

StopAll ==
  /\ UserOp("stopAll", NoId)
  /\ StopAllPlayback("stopAll")
  /\ UNCHANGED <<requests, nextId>>

\* ---- playBlock (App.tsx:38-57) ----
\* playBlock(id) rejects: its block has a buffer that cannot be decoded
PlayBlockThrows(id) ==
  /\ HasAudioData(blocks, id)
  /\ DecodeThrows(blocks[FindIndex(blocks, id)].audioData)

PlayBlock(id) ==
  /\ UserOp(IF PlayBlockThrows(id) THEN "playBlock:throws" ELSE "playBlock", id)
  /\ IF ~HasAudioData(blocks, id) \/ PlayBlockThrows(id)
     THEN StopAllPlayback("playBlock")
     ELSE /\ SourceRoom(1)
          /\ sources' = Append(StopCurrent(sources, currentAudioSource),
                               NewSource("one", id, 0))
          /\ currentAudioSource' = Len(sources) + 1
          /\ isPlayingAll' = FALSE
          /\ blocks' = MapId(ClearPlaying(blocks), id, SetPlayingTrue)
          /\ loops' = MarkInterrupted(loops, "playBlock")
  /\ UNCHANGED <<requests, nextId>>

\* ---- playAllSequentially (App.tsx:59-96) ----

\* the closure of one run: the clips it captured, the position of the loop,
\* the node it awaits; atStart and interruptedBy are history
NewLoop(playable, src, bs) ==
  [playable |-> playable, i |-> 1, src |-> src, done |-> FALSE,
   interruptedBy |-> {}, atStart |-> bs]

\* the closure of a run whose loop has been left by a rejected decode before
\* clip i + 1
FailedLoop(lp) ==
  [lp EXCEPT !.done = TRUE, !.interruptedBy = @ \cup {"decodeError"}]

\* variant: the loop re-reads the list as it is now instead of its capture
NextClip_FromCurrentList(lp) ==
  LET now == PlayableBlocks(blocks)
  IN IF lp.i + 1 <= Len(now) THEN now[lp.i + 1] ELSE lp.playable[lp.i + 1]

\* the block the for-of loop takes after position lp.i
NextClip(lp) == lp.playable[lp.i + 1]

\* after `await playPromise`: `if (!currentAudioSource.current) break;`
\* and the end of the for-of loop
LoopGoesOn(lp, cur) == cur # Null /\ lp.i < Len(lp.playable)

\* variant: no toggle, the handler starts a sequence even in PlayingAll
PlayAllSequentially_NoToggle ==
  LET playable == PlayableBlocks(blocks) IN
  /\ Len(playable) > 0
  /\ UserOp("playAllSequentially:start", NoId)
  /\ SourceRoom(Len(playable))
  /\ isPlayingAll' = TRUE
  /\ blocks' = MapId(blocks, playable[1].id, SetPlayingTrue)
  /\ sources' = Append(sources,
                       NewSource("all", playable[1].id, Len(loops) + 1))
  /\ currentAudioSource' = Len(sources) + 1
  /\ loops' = Append(loops, NewLoop(playable, Len(sources) + 1, blocks))
  /\ UNCHANGED <<requests, nextId>>

PlayAllSequentially ==
  IF isPlayingAll
  THEN /\ UserOp("playAllSequentially:stop", NoId)
       /\ StopAllPlayback("playAllSequentially")
       /\ UNCHANGED <<requests, nextId>>
  ELSE LET playable == PlayableBlocks(blocks) IN
       IF Len(playable) = 0
       THEN /\ UserOp("playAllSequentially:none", NoId)
            /\ UNCHANGED <<blocks, isPlayingAll, currentAudioSource, sources,
                           loops, requests, nextId>>
       ELSE IF DecodeThrows(playable[1].audioData)
       THEN /\ UserOp("playAllSequentially:throws", NoId)
            /\ isPlayingAll' = TRUE
            /\ loops' = Append(loops,
                 FailedLoop([NewLoop(playable, Null, blocks) EXCEPT !.i = 0]))
            /\ UNCHANGED <<blocks, currentAudioSource, sources, requests, nextId>>
       ELSE /\ UserOp("playAllSequentially:start", NoId)
            /\ SourceRoom(Len(playable))
            /\ isPlayingAll' = TRUE
            /\ blocks' = MapId(blocks, playable[1].id, SetPlayingTrue)
            /\ sources' = Append(sources,
                                 NewSource("all", playable[1].id, Len(loops) + 1))
            /\ currentAudioSource' = Len(sources) + 1
            /\ loops' = Append(loops, NewLoop(playable, Len(sources) + 1, blocks))
            /\ UNCHANGED <<requests, nextId>>

\* ---- the ended event of source node s ----

\* variant: onended leaves the playing flag as it is
OnEndedBlocks_KeepsFlag(bs, src) == bs

\* what source.onended does to the list (App.tsx:51-53 and 82-83);
\* a preview node has no handler
OnEndedBlocks(bs, src) ==
  IF src.kind = "preview" THEN bs ELSE MapId(bs, src.id, SetPlayingFalse)

\* onended of s runs, and for a clip of playAllSequentially the loop resumes
\* (resolve(null), App.tsx:84) up to its next `await playPromise` or its end
OnEnded(s) ==
  LET src == sources[s]
      ended == [sources EXCEPT ![s].st = "ended"]
      bs == OnEndedBlocks(blocks, src)
      throws == /\ src.kind = "all"
                /\ LoopGoesOn(loops[src.loop], currentAudioSource)
                /\ DecodeThrows(NextClip(loops[src.loop]).audioData)
  IN  /\ lastOp' = <<IF throws THEN "ended:throws" ELSE "ended", s>>
      /\ UNCHANGED <<requests, nextId, opsLeft, call>>
      /\ IF src.kind # "all"
         THEN /\ sources' = ended
              /\ blocks' = bs
              /\ UNCHANGED <<isPlayingAll, currentAudioSource, loops>>
         ELSE LET l == src.loop
                  lp == loops[l]
              IN IF throws
                 THEN /\ blocks' = bs
                      /\ sources' = ended
                      /\ loops' = [loops EXCEPT ![l] = FailedLoop(lp)]
                      /\ UNCHANGED <<isPlayingAll, currentAudioSource>>
                 ELSE IF LoopGoesOn(lp, currentAudioSource)
                 THEN /\ blocks' = MapId(bs, NextClip(lp).id, SetPlayingTrue)
                      /\ sources' = Append(ended,
                                           NewSource("all", NextClip(lp).id, l))
                      /\ currentAudioSource' = Len(sources) + 1
                      /\ loops' = [loops EXCEPT ![l].i = lp.i + 1,
                                                ![l].src = Len(sources) + 1]
                      /\ UNCHANGED isPlayingAll
                 ELSE /\ blocks' = bs
                      /\ sources' = ended
                      /\ isPlayingAll' = FALSE
                      /\ loops' = [loops EXCEPT ![l].done = TRUE]
                      /\ UNCHANGED currentAudioSource

\* the clip plays to its end
ClipEndsNaturally(s) ==
  /\ s \in 1..Len(sources)
  /\ sources[s].st = "playing"
  /\ OnEnded(s)

\* the ended event of a node that stop() halted is delivered
EndedAfterStop(s) ==
  /\ s \in 1..Len(sources)
  /\ sources[s].st = "stopped"
  /\ OnEnded(s)

\* ---- editing the list (App.tsx:131-156) ----
\* variant: the new block always goes to the end of the list
InsertAfter_AtEnd(bs, k, b) == Append(bs, b)

\* next.splice(k, 0, b) on a copy of bs, k being index + 1
InsertAfter(bs, k, b) == SubSeq(bs, 1, k) \o <<b>> \o SubSeq(bs, k + 1, Len(bs))

BlockIds(bs) == {bs[i].id : i \in 1..Len(bs)}

AddBlock(afterId) ==
  /\ UserOp("addBlock", afterId)
  /\ Len(blocks) < MaxBlocks
  /\ nextId <= MaxId
  /\ afterId \in BlockIds(blocks) \cup {NoId}
  /\ blocks' = IF afterId = NoId
               THEN Append(blocks, NewBlock(nextId))
               ELSE InsertAfter(blocks, FindIndex(blocks, afterId), NewBlock(nextId))
  /\ nextId' = nextId + 1
  /\ UNCHANGED <<isPlayingAll, currentAudioSource, sources, loops, requests>>

RemoveBlock(id) ==
  /\ UserOp("removeBlock", id)
  /\ id \in BlockIds(blocks)
  /\ blocks' = IF Len(blocks) > 1 THEN FilterOutId(blocks, id) ELSE blocks
  /\ UNCHANGED <<isPlayingAll, currentAudioSource, sources, loops, requests, nextId>>

\* variant: the container reference survives the edit
SetText_KeepsUrl(text) == [text |-> text, audioData |-> NoAudio]

SetText(text) == [text |-> text, audioData |-> NoAudio, audioUrl |-> NoAudio]

UpdateBlockText(id, text) ==
  /\ UserOp("updateBlockText", id)
  /\ id \in BlockIds(blocks)
  /\ blocks' = MapId(blocks, id, SetText(text))
  /\ UNCHANGED <<isPlayingAll, currentAudioSource, sources, loops, requests, nextId>>

ClearAll ==
  /\ UserOp("clearAll", NoId)
  /\ nextId <= MaxId
  /\ sources' = StopCurrent(sources, currentAudioSource)
  /\ currentAudioSource' = Null
  /\ isPlayingAll' = FALSE
  /\ loops' = MarkInterrupted(loops, "clearAll")
  /\ blocks' = <<NewBlock(nextId)>>
  /\ nextId' = nextId + 1
  /\ UNCHANGED requests

\* ---- generation (App.tsx:98-121) and voice preview (App.tsx:180-196) ----

\* variant: the call is made again when it has returned or thrown
RemoveAt_Retries(q, k) == q

\* the calls in flight without call k, which has returned or thrown
RemoveAt(q, k) == SubSeq(q, 1, k - 1) \o SubSeq(q, k + 1, Len(q))

SetGenerating == [isGenerating |-> TRUE, error |-> NoError]
SetGenerated(pcm) == [audioData |-> pcm, audioUrl |-> pcm, isGenerating |-> FALSE]
\* variant: the catch block leaves the generating flag set
SetFailed_StaysGenerating == [error |-> "error"]

SetFailed == [isGenerating |-> FALSE, error |-> "error"]

\* a generateTTS call in flight: `rest` is what the for loop of the
\* generateAll awaiting it has still to visit (empty outside generateAll)
NoRun == [n |-> 0, captured |-> << >>, issued |-> << >>]

\* `run` is history, not program state: for a request of generateAll, the
\* number of the invocation, the list it captured and the ids it has called
\* generateTTS for so far
Request(kind, id, text, rest) ==
  [kind |-> kind, id |-> id, text |-> text, rest |-> rest, run |-> NoRun]

GenerateBlockAudio(id) ==
  /\ UserOp("generateBlockAudio", id)
  /\ id \in BlockIds(blocks)
  /\ IF ~NonBlank(blocks[FindIndex(blocks, id)].text)
     THEN UNCHANGED <<blocks, requests>>
     ELSE /\ Len(requests) < MaxRequests
          /\ blocks' = MapId(blocks, id, SetGenerating)
          /\ requests' = Append(requests,
               [Request("block", id, blocks[FindIndex(blocks, id)].text, << >>)
                  EXCEPT !.run.n = opsLeft])
  /\ UNCHANGED <<isPlayingAll, currentAudioSource, sources, loops, nextId>>

\* ---- generateAll (App.tsx:123-129) ----

\* block.text.trim() && !block.audioData
Eligible(b) == NonBlank(b.text) /\ b.audioData = NoAudio

\* variant: the loop takes the last eligible block first
FirstEligible_Last(bs) ==
  IF \E j \in 1..Len(bs) : Eligible(bs[j])
  THEN CHOOSE j \in 1..Len(bs) :
         Eligible(bs[j]) /\ \A h \in (j + 1)..Len(bs) : ~Eligible(bs[h])
  ELSE 0

\* the position in bs of the first block the loop generates, 0 when none
FirstEligible(bs) ==
  IF \E j \in 1..Len(bs) : Eligible(bs[j])
  THEN CHOOSE j \in 1..Len(bs) :
         Eligible(bs[j]) /\ \A h \in 1..(j - 1) : ~Eligible(bs[h])
  ELSE 0

\* the loop of generateAll over the blocks bs it has still to visit, with cur
\* the list on screen: generateBlockAudio of the first eligible block marks
\* it as generating and calls generateTTS with the text the loop captured
BlocksAfterLoop(bs, cur) ==
  IF FirstEligible(bs) = 0 THEN cur
  ELSE MapId(cur, bs[FirstEligible(bs)].id, SetGenerating)

RequestsAfterLoop(bs, reqs, run) ==
  IF FirstEligible(bs) = 0 THEN reqs
  ELSE LET j == FirstEligible(bs)
       IN Append(reqs,
            [Request("batch", bs[j].id, bs[j].text, SubSeq(bs, j + 1, Len(bs)))
               EXCEPT !.run = [run EXCEPT !.issued = Append(@, bs[j].id)]])

\* generateAll iterates over the list it captured when it was called
GenerateAll ==
  /\ UserOp("generateAll", NoId)
  /\ FirstEligible(blocks) # 0 => Len(requests) < MaxRequests
  /\ blocks' = BlocksAfterLoop(blocks, blocks)
  /\ requests' = RequestsAfterLoop(blocks, requests,
                     [n |-> opsLeft, captured |-> blocks, issued |-> << >>])
  /\ UNCHANGED <<isPlayingAll, currentAudioSource, sources, loops, nextId>>

\* variant: a failed generation ends the loop of generateAll
Remaining_StopsOnError(r, ok) == IF ok THEN r.rest ELSE << >>

\* what the loop awaiting request r has still to visit once generateTTS has
\* returned (ok) or thrown: generateBlockAudio catches the error
\* (App.tsx:114), so `await generateBlockAudio` resolves either way
Remaining(r, ok) == r.rest

PlayPreview ==
  /\ UserOp("playPreview", NoId)
  /\ Len(requests) < MaxRequests
  /\ SourceRoom(1)
  /\ blocks' = Append(blocks, PreviewBlock)
  /\ requests' = Append(requests,
       Request("preview", PreviewId, PreviewText, << >>))
  /\ UNCHANGED <<isPlayingAll, currentAudioSource, sources, loops, nextId>>

\* the name of the step in which generateTTS returns or throws
TTSStep(kind, ok) ==
  IF kind = "batch"
  THEN IF ok THEN "ttsReturns:batch" ELSE "ttsThrows:batch"
  ELSE IF kind = "preview"
  THEN IF ok THEN "ttsReturns:preview" ELSE "ttsThrows:preview"
  ELSE IF ok THEN "ttsReturns" ELSE "ttsThrows"

\* generateTTS of request k returns (ok) or throws (~ok); a generateAll
\* awaiting it goes on with its loop in the same task
TTSResponds(k, ok) ==
  /\ k \in 1..Len(requests)
  /\ lastOp' = <<TTSStep(requests[k].kind, ok), requests[k].id>>
  /\ LET r == requests[k]
         settled == IF r.kind = "preview" THEN FilterOutId(blocks, PreviewId)
                    ELSE IF ok THEN MapId(blocks, r.id, SetGenerated(r.text))
                    ELSE MapId(blocks, r.id, SetFailed)
     IN /\ blocks' = BlocksAfterLoop(Remaining(r, ok), settled)
        /\ requests' = RequestsAfterLoop(Remaining(r, ok), RemoveAt(requests, k),
                                         r.run)
        /\ sources' = IF r.kind = "preview" /\ ok
                      THEN Append(sources, NewSource("preview", PreviewId, 0))
                      ELSE sources
  /\ UNCHANGED <<isPlayingAll, currentAudioSource, loops, nextId, opsLeft, call>>

Next ==
  \/ StopAll
  \/ \E id \in 0..MaxId : PlayBlock(id)
  \/ PlayAllSequentially
  \/ \E s \in 1..MaxSources : ClipEndsNaturally(s)
  \/ \E s \in 1..MaxSources : EndedAfterStop(s)
  \/ \E id \in {NoId} \cup 0..MaxId : AddBlock(id)
  \/ \E id \in 0..MaxId : RemoveBlock(id)
  \/ \E id \in 0..MaxId, text \in Texts : UpdateBlockText(id, text)
  \/ ClearAll
  \/ \E id \in 0..MaxId : GenerateBlockAudio(id)
  \/ GenerateAll
  \/ PlayPreview
  \/ \E k \in 1..MaxRequests, ok \in BOOLEAN : TTSResponds(k, ok)

Spec == Init /\ [][Next]_vars

\* ---- fairness: a started clip has a finite buffer and ends, and the event
\* ---- loop delivers the ended event of a node that was stopped
LiveInit == InitWith(MaxLiveOps)

LiveSpec ==
  /\ LiveInit
  /\ [][Next]_vars
  /\ WF_vars(\E s \in 1..MaxSources : ClipEndsNaturally(s))
  /\ WF_vars(\E s \in 1..MaxSources : EndedAfterStop(s))

\* ---- fairness: generateTTS returns or throws for every call ----
GenLiveSpec ==
  /\ LiveInit
  /\ [][Next]_vars
  /\ WF_vars(\E k \in 1..MaxRequests, ok \in BOOLEAN : TTSResponds(k, ok))

\* ---- compositions in which some generation returned a corrupt buffer ----
FaultBlocks ==
  UNION {
    {bs \in [1..n -> {NewBlock(i) : i \in 1..n} \cup
                     {GeneratedBlock(i, "a") : i \in 1..n} \cup
                     {CorruptBlock(i, "a") : i \in 1..n}] :
       \A i \in 1..n : bs[i].id = i}
    : n \in 1..MaxBlocks}

FaultInit ==
  /\ blocks \in FaultBlocks
  /\ isPlayingAll = FALSE
  /\ currentAudioSource = Null
  /\ sources = << >>
  /\ loops = << >>
  /\ requests = << >>
  /\ nextId = Len(blocks) + 1
  /\ opsLeft = MaxFaultOps
  /\ lastOp = <<"init", NoId>>
  /\ call = NoCall

FaultSpec == FaultInit /\ [][Next]_vars

\* ---- the functions of audioUtils.ts applied to bounded inputs ----
sequencerVars == <<blocks, isPlayingAll, currentAudioSource, sources, loops,
                   requests, nextId, opsLeft, lastOp>>

UtilInit ==
  /\ blocks = <<NewBlock(1)>>
  /\ isPlayingAll = FALSE
  /\ currentAudioSource = Null
  /\ sources = << >>
  /\ loops = << >>
  /\ requests = << >>
  /\ nextId = 2
  /\ opsLeft = 0
  /\ lastOp = <<"init", NoId>>
  /\ call = NoCall

\* every behaviour of UtilSpec is one call on one input
NotCalled == call.fn = "none"

\* one call of a function of audioUtils.ts, recorded with its result
Calls(fn, arg, out) ==
  /\ NotCalled
  /\ call' = [fn |-> fn, arg |-> arg, out |-> out]
  /\ UNCHANGED sequencerVars

CallDecodeAudioToBuffer(data, numChannels) ==
  Calls("decodeAudioToBuffer",
        [data |-> data, numChannels |-> numChannels],
        DecodeAudioToBuffer(data, numChannels))

CallCreateWavBlob(pcmData, sampleRate) ==
  Calls("createWavBlob",
        [pcmData |-> pcmData, sampleRate |-> sampleRate],
        CreateWavBlob(pcmData, sampleRate))

CallConcatenateToSingleWav(bs) ==
  Calls("concatenateToSingleWav", [blocks |-> bs], ConcatenateToSingleWav(bs))

CallGenerateZip(bs) ==
  Calls("generateZip", [blocks |-> bs], [saved |-> FALSE, zip |-> GenerateZip(bs)])

CallDownloadZip(bs) ==
  Calls("downloadZip", [blocks |-> bs], DownloadZip(bs))

CallEncodeDecode(bytes) ==
  Calls("decode(encode)", [bytes |-> bytes],
        [base64 |-> Encode(bytes), bytes |-> Decode(Encode(bytes))])

UtilNext ==
  \/ NotCalled /\ \E data \in PcmBuffers, c \in 1..MaxChannels :
       CallDecodeAudioToBuffer(data, c)
  \/ NotCalled /\ \E pcmData \in Payloads, rate \in SampleRates :
       CallCreateWavBlob(pcmData, rate)
  \/ NotCalled /\ \E bs \in SegmentLists : CallConcatenateToSingleWav(bs)
  \/ NotCalled /\ \E bs \in SegmentLists : CallGenerateZip(bs)
  \/ NotCalled /\ \E bs \in SegmentLists : CallDownloadZip(bs)
  \/ NotCalled /\ \E bytes \in CodecBuffers : CallEncodeDecode(bytes)

UtilSpec == UtilInit /\ [][UtilNext]_vars

\* ---- properties ----
PlayingIds == {blocks[i].id : i \in {j \in 1..Len(blocks) : blocks[j].isPlaying}}
OneSources == {s \in ActiveSources : sources[s].kind = "one"}
RunsInProgress == {l \in 1..Len(loops) : ~loops[l].done}

\* C1: in every reachable state at most one audio source is active (started
\* and neither stopped nor ended), whatever the interleaving of playOne,
\* playAllSequentially, stopAll, clearAll, voice preview and ended events.
C1_AtMostOneActiveSource == Cardinality(ActiveSources) <= 1

\* C2: two sources started by playOne are never active at the same time: the
\* source of playOne(Y) is stopped before the source of playOne(X) is started.
C2_PlayOneStopsPlayOne == Cardinality(OneSources) <= 1

\* C3: once stopAll() has been called during a run of playAllSequentially
\* over 3 buffered segments, that run starts no further clip: its loop
\* position never advances and it creates no source.
C3_StopAllEndsRun ==
  [][\A l \in RunsInProgress :
       ("stopAll" \in loops[l].interruptedBy /\ Len(loops[l].playable) = 3)
         => (loops'[l].i = loops[l].i /\ loops'[l].src = loops[l].src)]_vars

\* C4: right after playAllSequentially has started a sequence, no source
\* started by playOne is still active and the only playing flag set is the
\* one of the first clip of the sequence.
C4_SequenceCancelsSingle ==
  lastOp[1] = "playAllSequentially:start"
    => /\ OneSources = {}
       /\ PlayingIds \subseteq {sources[currentAudioSource].id}

\* C5: once playOne has been invoked during a run of playAllSequentially,
\* that run starts no further clip, whenever the ended event of the clip it
\* stopped is delivered.
C5_PlayOneEndsRun ==
  [][\A l \in RunsInProgress :
       "playBlock" \in loops[l].interruptedBy
         => (loops'[l].i = loops[l].i /\ loops'[l].src = loops[l].src)]_vars

\* the ids of the clips run l has started, in the order it started them
Played(l) ==
  LET Mine(src) == src.kind = "all" /\ src.loop = l
      mine == SelectSeq(sources, Mine)
  IN [k \in 1..Len(mine) |-> mine[k].id]

\* the ids of the segments that had a buffer when run l was called, in the
\* order of the list at that moment
BufferedAtStart(l) ==
  LET Buffered(b) == b.audioData # NoAudio
      had == SelectSeq(loops[l].atStart, Buffered)
  IN [k \in 1..Len(had) |-> had[k].id]

IsPrefix(a, b) == Len(a) <= Len(b) /\ \A k \in 1..Len(a) : a[k] = b[k]

SourcesOf(l) ==
  {s \in 1..Len(sources) : sources[s].kind = "all" /\ sources[s].loop = l}

\* C6: every run of playAllSequentially starts its clips in the order the
\* buffered segments had in the list when it was called, whatever is added,
\* removed or edited meanwhile; a run that finished without stopAllPlayback
\* being called during it has played all of them, each once; and a run
\* starts a clip only after the ended event of its previous clip.
C6_RunPlaysCaptureInOrder ==
  \A l \in 1..Len(loops) :
    /\ IsPrefix(Played(l), BufferedAtStart(l))
    /\ (loops[l].done /\ loops[l].interruptedBy = {})
         => Len(Played(l)) = Len(BufferedAtStart(l))
    /\ \A s, t \in SourcesOf(l) : s < t => sources[s].st = "ended"

\* a run over two or more clips has just finished uninterrupted, and the
\* buffered segments of the list are no longer those it was called with
C6_Witness ==
  \E l \in 1..Len(loops) :
    /\ loops[l].done /\ loops[l].interruptedBy = {}
    /\ Len(Played(l)) >= 2
    /\ lastOp = <<"ended", loops[l].src>>
    /\ LET Buffered(b) == b.audioData # NoAudio
           now == SelectSeq(blocks, Buffered)
       IN [k \in 1..Len(now) |-> now[k].id] # BufferedAtStart(l)

\* C7: every segment whose playing flag is true is the segment of the
\* current, active source; so at most one flag is true and none is true
\* when no source is active.
C7_FlagOnlyOnActiveClip ==
  /\ Cardinality({j \in 1..Len(blocks) : blocks[j].isPlaying}) <= 1
  /\ \A id \in PlayingIds :
       /\ currentAudioSource # Null
       /\ sources[currentAudioSource].st = "playing"
       /\ sources[currentAudioSource].id = id

\* the step is an invocation of stopAll()
StopAllStep == lastOp' = <<"stopAll", NoId>> /\ opsLeft' = opsLeft - 1

\* C8: stopAll() yields a state with no active source, a null handle,
\* isPlayingAll false and every playing flag false, and changes nothing
\* else of the segments; a second call changes nothing.
C8_StopAllHaltsEverything ==
  [][StopAllStep =>
       /\ \A s \in 1..Len(sources') : sources'[s].st # "playing"
       /\ currentAudioSource' = Null
       /\ isPlayingAll' = FALSE
       /\ Len(blocks') = Len(blocks)
       /\ \A j \in 1..Len(blocks) :
            blocks'[j] = [blocks[j] EXCEPT !.isPlaying = FALSE]
       /\ lastOp = <<"stopAll", NoId>>
            => /\ blocks' = blocks
               /\ sources' = sources]_vars

\* the step is an invocation of playAllSequentially
PlayAllStep ==
  /\ lastOp'[1] \in {"playAllSequentially:stop", "playAllSequentially:none",
                     "playAllSequentially:start"}
  /\ opsLeft' = opsLeft - 1

Idle == ~isPlayingAll /\ PlayingIds = {}

\* a playback request has been issued and no operation follows it
LastRequest ==
  /\ lastOp[1] \in {"playBlock", "playAllSequentially:start"}
  /\ opsLeft = 0

\* C10: when every started clip ends and no other operation is issued, a
\* playback request is followed by a state where isPlayingAll is false and
\* every playing flag is false.
C10_RequestReturnsToIdle == LastRequest ~> Idle

\* the last clip of a run over two or more clips has ended after the last
\* operation, and the sequencer is idle
C10_Witness ==
  /\ opsLeft = 0
  /\ Idle
  /\ \E l \in 1..Len(loops) :
       /\ loops[l].done /\ loops[l].interruptedBy = {}
       /\ Len(loops[l].playable) >= 2
       /\ lastOp = <<"ended", loops[l].src>>

\* the signed 16-bit little-endian integer at sample index k (from 0) of bytes
SignedLE16(bytes, k) ==
  LET lo == bytes[2 * k + 1]
      hi == bytes[2 * k + 2]
  IN IF hi >= 128 THEN lo + 256 * hi - 65536 ELSE lo + 256 * hi

\* the fractions p and q are the same number
SameFraction(p, q) == p[1] * q[2] = q[1] * p[2]

Decoded == call.fn = "decodeAudioToBuffer"

\* C12: decoding a mono buffer of odd length 2n+1 does not fail and yields
\* exactly n frames.
C12_OddLengthTruncates ==
  (Decoded /\ call.arg.numChannels = 1 /\ Len(call.arg.data) % 2 = 1)
    => /\ call.out.error = "none"
       /\ Len(call.out.channels) = 1
       /\ Len(call.out.channels[1]) = (Len(call.arg.data) - 1) \div 2

\* C13: for an even-length buffer and c channels the decoder yields
\* floor(sampleCount / c) frames per channel, and the sample of channel ch at
\* frame i is s / 32768 for the signed 16-bit little-endian s at sample
\* index i*c + ch.
C13_DecoderNormalizes ==
  (Decoded /\ Len(call.arg.data) % 2 = 0)
    => LET c == call.arg.numChannels
           sampleCount == Len(call.arg.data) \div 2
       IN /\ call.out.error = "none"
          /\ Len(call.out.channels) = c
          /\ \A ch \in 1..c :
               /\ Len(call.out.channels[ch]) = sampleCount \div c
               /\ \A i \in 1..(sampleCount \div c) :
                    SameFraction(call.out.channels[ch][i],
                      <<SignedLE16(call.arg.data, (i - 1) * c + (ch - 1)), 32768>>)

\* the unsigned little-endian integer in the n bytes at offset off (from 0)
RECURSIVE UnsignedLE(_, _, _)
UnsignedLE(bytes, off, n) ==
  IF n = 0 THEN 0
  ELSE bytes[off + 1] + 256 * UnsignedLE(bytes, off + 1, n - 1)

\* the bytes at offsets off .. off+n-1 (from 0)
Slice(bytes, off, n) == [k \in 1..n |-> bytes[off + k]]

Framed == call.fn = "createWavBlob"

\* C14: the 44-byte header written by createWavBlob holds, little-endian,
\* 'RIFF' at 0, 36 + payload length at 4, 'WAVE' at 8, 'fmt ' at 12, 16 at 16,
\* 1 at 20, 1 at 22, the sample rate at 24, twice the sample rate at 28, 2 at
\* 32, 16 at 34, 'data' at 36 and the payload length at 40.
C14_HeaderExact ==
  Framed =>
    LET h == call.out.bytes
        n == Len(call.arg.pcmData)
        rate == call.arg.sampleRate
    IN /\ Len(h) >= 44
       /\ Slice(h, 0, 4) = <<82, 73, 70, 70>>
       /\ UnsignedLE(h, 4, 4) = 36 + n
       /\ Slice(h, 8, 4) = <<87, 65, 86, 69>>
       /\ Slice(h, 12, 4) = <<102, 109, 116, 32>>
       /\ UnsignedLE(h, 16, 4) = 16
       /\ UnsignedLE(h, 20, 2) = 1
       /\ UnsignedLE(h, 22, 2) = 1
       /\ UnsignedLE(h, 24, 4) = rate
       /\ UnsignedLE(h, 28, 4) = rate * 2
       /\ UnsignedLE(h, 32, 2) = 2
       /\ UnsignedLE(h, 34, 2) = 16
       /\ Slice(h, 36, 4) = <<100, 97, 116, 97>>
       /\ UnsignedLE(h, 40, 4) = n

C14_Witness ==
  /\ Framed
  /\ Len(call.arg.pcmData) = 1000
  /\ call.arg.sampleRate = 44100
  /\ UnsignedLE(call.out.bytes, 4, 4) = 1036

\* C15: createWavBlob returns, for every payload, a container of 44 + payload
\* length bytes whose bytes from offset 44 on are the payload, and leaves the
\* input buffer as it was.
C15_FramingIsMechanical ==
  Framed =>
    /\ Len(call.out.bytes) = 44 + Len(call.arg.pcmData)
    /\ \A k \in 1..Len(call.arg.pcmData) :
         call.out.bytes[44 + k] = call.arg.pcmData[k]
    /\ call.out.pcmData = call.arg.pcmData

C15_Witness ==
  /\ Framed
  /\ Len(call.arg.pcmData) = 3
  /\ Len(call.out.bytes) = 47
  /\ call.out.bytes[47] = call.arg.pcmData[3]

\* the buffers of the segments that have one, joined in list order
RECURSIVE Joined(_)
Joined(bs) ==
  IF bs = << >> THEN << >>
  ELSE IF Head(bs).audioData = << >> THEN Joined(Tail(bs))
       ELSE Head(bs).audioData[1] \o Joined(Tail(bs))

\* the positions of the segments of bs that have a buffer
WithBuffer(bs) == {i \in 1..Len(bs) : bs[i].audioData # << >>}

\* the number of segments with a buffer among the first i of bs
RankOf(bs, i) == Cardinality({j \in WithBuffer(bs) : j <= i})

Concatenated == call.fn = "concatenateToSingleWav"

\* C16: concatenateToSingleWav yields a container whose payload is the
\* concatenation, in list order, of the buffers of the segments that have
\* one; a segment without a buffer contributes nothing.
C16_ConcatenatesInOrder ==
  Concatenated =>
    LET bs == call.arg.blocks
        expected == Joined(bs)
    IN /\ Len(call.out.bytes) = 44 + Len(expected)
       /\ Slice(call.out.bytes, 44, Len(expected)) = expected
       /\ UnsignedLE(call.out.bytes, 40, 4) = Len(expected)

C16_Witness ==
  /\ Concatenated
  /\ Len(call.arg.blocks) = 3
  /\ WithBuffer(call.arg.blocks) = {1, 3}
  /\ Len(call.arg.blocks[1].audioData[1]) = 100
  /\ Len(call.arg.blocks[3].audioData[1]) = 200
  /\ Len(call.out.bytes) = 344

Zipped == call.fn \in {"generateZip", "downloadZip"}

RoundTripped == call.fn = "decode(encode)"

\* C18: decode(encode(b)) equals b for every byte buffer b, the empty one
\* included: same length, same bytes in the same order.
C18_CodecRoundTrip ==
  RoundTripped =>
    /\ Len(call.out.bytes) = Len(call.arg.bytes)
    /\ \A i \in 1..Len(call.arg.bytes) : call.out.bytes[i] = call.arg.bytes[i]

C18_Witness ==
  /\ RoundTripped
  /\ call.arg.bytes = <<255, 0, 128, 127>>
  /\ call.out.base64 = <<"/", "w", "C", "A", "f", "w", "=", "=">>
  /\ call.out.bytes = call.arg.bytes

UpdateTextStep == lastOp'[1] = "updateBlockText" /\ opsLeft' = opsLeft - 1

\* C20: updateBlockText clears the edited segment's raw buffer and container
\* reference in the same step and leaves every other segment, the order of
\* the list and the edited segment's id and flags unchanged.
C20_EditClearsAudio ==
  [][UpdateTextStep =>
       /\ Len(blocks') = Len(blocks)
       /\ \A i \in 1..Len(blocks) :
            IF blocks[i].id = lastOp'[2]
            THEN /\ blocks'[i].audioData = NoAudio
                 /\ blocks'[i].audioUrl = NoAudio
                 /\ blocks'[i].id = blocks[i].id
                 /\ blocks'[i].isGenerating = blocks[i].isGenerating
                 /\ blocks'[i].isPlaying = blocks[i].isPlaying
            ELSE blocks'[i] = blocks[i]]_vars

C20_Witness ==
  /\ lastOp[1] = "updateBlockText"
  /\ Len(blocks) >= 2
  /\ \E i \in 1..Len(blocks) :
       /\ blocks[i].id = lastOp[2]
       /\ blocks[i].text = "b"
       /\ blocks[i].isPlaying
       /\ blocks[i].audioData = NoAudio
       /\ blocks[i].audioUrl = NoAudio
       /\ \E j \in 1..Len(blocks) : j # i /\ blocks[j].audioData # NoAudio

\* the positions in a captured list of the segments generateAll generates
LaterEligible(rest) ==
  {j \in 1..Len(rest) : rest[j].text # "" /\ rest[j].audioData = NoAudio}

BatchFailStep == lastOp'[1] = "ttsThrows:batch"

\* C19: when generation fails for one segment during generateAll, only that
\* segment gets an error and returns to not-generating, no other segment
\* changes because of the failure, and generateAll goes on to issue the
\* request of the next eligible segment of the list it captured, keeping the
\* segments after that one to visit.
C19_BatchSurvivesFailure ==
  [][BatchFailStep =>
       \E k \in 1..Len(requests) :
         LET r == requests[k]
             later == LaterEligible(r.rest)
             j == IF later = {} THEN 0
                  ELSE CHOOSE n \in later : \A h \in later : n <= h
             nextId_ == IF j = 0 THEN NoId ELSE r.rest[j].id
         IN /\ r.kind = "batch"
            /\ r.id = lastOp'[2]
            /\ Len(blocks') = Len(blocks)
            /\ \A i \in 1..Len(blocks) :
                 IF blocks[i].id = r.id /\ r.id # nextId_
                 THEN blocks'[i] = [blocks[i] EXCEPT !.error = "error",
                                                     !.isGenerating = FALSE]
                 ELSE IF blocks[i].id = nextId_
                 THEN /\ blocks'[i].isGenerating
                      /\ blocks'[i].text = blocks[i].text
                      /\ blocks'[i].audioData = blocks[i].audioData
                      /\ blocks'[i].isPlaying = blocks[i].isPlaying
                 ELSE blocks'[i] = blocks[i]
            /\ IF j = 0
               THEN Len(requests') = Len(requests) - 1
               ELSE /\ Len(requests') = Len(requests)
                    /\ \E q \in 1..Len(requests') :
                         /\ requests'[q].kind = "batch"
                         /\ requests'[q].id = nextId_
                         /\ requests'[q].text = r.rest[j].text
                         /\ requests'[q].rest = SubSeq(r.rest, j + 1, Len(r.rest))]_vars

C19_Witness ==
  /\ lastOp[1] = "ttsThrows:batch"
  /\ \E i, n \in 1..Len(blocks) :
       /\ i < n
       /\ blocks[i].id = lastOp[2]
       /\ blocks[i].error = "error"
       /\ ~blocks[i].isGenerating
       /\ blocks[n].isGenerating
       /\ blocks[n].error = NoError
       /\ \E q \in 1..Len(requests) :
            requests[q].kind = "batch" /\ requests[q].id = blocks[n].id

DecodeFailedStep ==
  lastOp'[1] \in {"playBlock:throws", "playAllSequentially:throws", "ended:throws"}

\* C11: after a decode failure inside playOne or playAllSequentially,
\* isPlayingAll is false, no segment's playing flag is true, no source is
\* active, and the segments' text and buffers are as they were.
C11_DecodeFailureLeavesConsistent ==
  [][DecodeFailedStep =>
       /\ ~isPlayingAll'
       /\ \A i \in 1..Len(blocks') : ~blocks'[i].isPlaying
       /\ \A s \in 1..Len(sources') : sources'[s].st # "playing"
       /\ Len(blocks') = Len(blocks)
       /\ \A i \in 1..Len(blocks) :
            /\ blocks'[i].text = blocks[i].text
            /\ blocks'[i].audioData = blocks[i].audioData]_vars

\* the ids, in list order, of the segments of bs with non-blank text and no
\* buffer
RECURSIVE EligibleIds(_)
EligibleIds(bs) ==
  IF bs = << >> THEN << >>
  ELSE IF Head(bs).text # "" /\ Head(bs).audioData = NoAudio
       THEN <<Head(bs).id>> \o EligibleIds(Tail(bs))
       ELSE EligibleIds(Tail(bs))

BatchRequests(reqs) == {q \in 1..Len(reqs) : reqs[q].kind = "batch"}

\* request r of a generateAll run is the next one in list order among the
\* segments eligible when the run started, and what the run has still to
\* visit holds exactly the eligible segments after it
InOrder(r) ==
  LET all == EligibleIds(r.run.captured)
      n == Len(r.run.issued)
  IN /\ n >= 1
     /\ IsPrefix(r.run.issued, all)
     /\ r.id = r.run.issued[n]
     /\ EligibleIds(r.rest) = SubSeq(all, n + 1, Len(all))

BatchResponseStep == lastOp'[1] \in {"ttsReturns:batch", "ttsThrows:batch"}

\* C21: a generateAll run issues its requests in list order for exactly the
\* segments that had non-blank text and no buffer when it started, one at a
\* time: a run never has two requests in flight, and it issues the next
\* request in the step in which the previous one returns or fails, until no
\* captured eligible segment is left.
C21_BatchInOrderOneAtATime ==
  [][/\ \A q \in BatchRequests(requests') : InOrder(requests'[q])
     /\ \A q, h \in BatchRequests(requests') :
          requests'[q].run.n = requests'[h].run.n => q = h
     /\ BatchResponseStep =>
          \E k \in BatchRequests(requests) :
            LET r == requests[k]
                all == EligibleIds(r.run.captured)
            IN /\ r.id = lastOp'[2]
               /\ IF Len(r.run.issued) = Len(all)
                  THEN \A q \in BatchRequests(requests') :
                         requests'[q].run.n # r.run.n
                  ELSE \E q \in BatchRequests(requests') :
                         /\ requests'[q].run.n = r.run.n
                         /\ Len(requests'[q].run.issued) = Len(r.run.issued) + 1]_vars

C21_Witness ==
  /\ lastOp[1] = "ttsReturns:batch"
  /\ \E q \in BatchRequests(requests) :
       /\ Len(requests[q].run.issued) = 2
       /\ Len(requests[q].run.captured) = 3
       /\ requests[q].run.issued[1] = requests[q].run.captured[1].id
       /\ requests[q].run.issued[2] = requests[q].run.captured[3].id

\* the generateTTS calls in flight that generateBlockAudio made
GenerationRequests(reqs) ==
  {q \in 1..Len(reqs) : reqs[q].kind \in {"block", "batch"}}

\* the invocation of generateBlockAudio that made request r: the user
\* operation it comes from and, within a generateAll, its rank in the run
Invocation(r) == <<r.run.n, Len(r.run.issued)>>

GenerationFailedStep == lastOp'[1] \in {"ttsThrows", "ttsThrows:batch"}

GenerationResponseStep ==
  lastOp'[1] \in {"ttsReturns", "ttsThrows", "ttsReturns:batch", "ttsThrows:batch"}

\* C22: an invocation of generateBlockAudio makes at most one request: no two
\* requests in flight come from one invocation, and once its request has
\* returned or failed the invocation has none in flight; when the request
\* fails, the segment gets the error message, is no longer generating and
\* keeps the buffer it had.
C22_OneRequestPerInvocation ==
  [][/\ \A q, h \in GenerationRequests(requests') :
          Invocation(requests'[q]) = Invocation(requests'[h]) => q = h
     /\ Len(requests') <= Len(requests) + 1
     /\ GenerationResponseStep =>
          \E k \in GenerationRequests(requests) :
            LET r == requests[k]
                later == LaterEligible(r.rest)
                goesOnWith == IF later = {} THEN NoId
                              ELSE r.rest[CHOOSE n \in later :
                                            \A h \in later : n <= h].id
            IN /\ r.id = lastOp'[2]
               /\ \A q \in GenerationRequests(requests') :
                    Invocation(requests'[q]) # Invocation(r)
               /\ GenerationFailedStep =>
                    \A i \in 1..Len(blocks) :
                      (blocks[i].id = r.id /\ r.id # goesOnWith) =>
                        /\ blocks'[i].error = "error"
                        /\ ~blocks'[i].isGenerating
                        /\ blocks'[i].audioData = blocks[i].audioData]_vars

C22_Witness ==
  /\ lastOp[1] = "ttsThrows"
  /\ requests = << >>
  /\ \E i \in 1..Len(blocks) :
       /\ blocks[i].id = lastOp[2]
       /\ blocks[i].error = "error"
       /\ ~blocks[i].isGenerating
       /\ blocks[i].audioData = NoAudio
       /\ blocks[i].text = "b"

\* some segment of id `id` is in the list with its generating flag set
Generating(id) ==
  \E i \in 1..Len(blocks) : blocks[i].id = id /\ blocks[i].isGenerating

\* every segment of id `id` still in the list has finished generating, with a
\* buffer and a container or with an error message
Settled(id) ==
  \A i \in 1..Len(blocks) :
    blocks[i].id = id =>
      /\ ~blocks[i].isGenerating
      /\ \/ blocks[i].audioData # NoAudio /\ blocks[i].audioUrl # NoAudio
         \/ blocks[i].error # NoError

TTSResponseStep ==
  lastOp'[1] \in {"ttsReturns", "ttsThrows", "ttsReturns:batch",
                  "ttsThrows:batch", "ttsReturns:preview", "ttsThrows:preview"}

\* C23: if generateTTS answers every call, a segment whose generating flag
\* is set and that stays in the list eventually has the flag cleared, with a
\* buffer and container or with an error message; and no step other than
\* the answer of generateTTS takes a call out of flight.
C23_GenerationRunsToCompletion ==
  /\ \A id \in 0..MaxId : Generating(id) ~> Settled(id)
  /\ [][~TTSResponseStep => IsPrefix(requests, requests')]_vars

C23_Witness ==
  /\ lastOp[1] \in {"ttsReturns", "ttsThrows"}
  /\ opsLeft = 0
  /\ requests = << >>
  /\ \E i \in 1..Len(blocks) :
       /\ blocks[i].id = lastOp[2]
       /\ blocks[i].text = "b"
       /\ Settled(blocks[i].id)

\* bs without its segments of id `id`, the others in their order
RECURSIVE Without(_, _)
Without(bs, id) ==
  IF bs = << >> THEN << >>
  ELSE IF Head(bs).id = id THEN Without(Tail(bs), id)
       ELSE <<Head(bs)>> \o Without(Tail(bs), id)

\* the position of the first segment of bs whose id is `id`
PositionOf(bs, id) ==
  CHOOSE i \in 1..Len(bs) : bs[i].id = id /\ \A j \in 1..(i - 1) : bs[j].id # id

AddBlockStep == lastOp'[1] = "addBlock" /\ opsLeft' = opsLeft - 1
RemoveBlockStep == lastOp'[1] = "removeBlock" /\ opsLeft' = opsLeft - 1

\* C24: addBlock(afterId) puts a new empty segment immediately after the
\* segment of id afterId, or at the end when no id is given, and
\* removeBlock(id) takes the segment of that id out; every other segment
\* keeps its content and its order relative to the others.
C24_EditsPreserveOrder ==
  [][/\ AddBlockStep =>
          LET k == IF lastOp'[2] = NoId THEN Len(blocks)
                   ELSE PositionOf(blocks, lastOp'[2])
          IN /\ Len(blocks') = Len(blocks) + 1
             /\ \A i \in 1..k : blocks'[i] = blocks[i]
             /\ \A i \in (k + 1)..Len(blocks) : blocks'[i + 1] = blocks[i]
             /\ \A i \in 1..Len(blocks) : blocks'[k + 1].id # blocks[i].id
             /\ blocks'[k + 1].text = ""
             /\ blocks'[k + 1].audioData = NoAudio
             /\ ~blocks'[k + 1].isGenerating
             /\ ~blocks'[k + 1].isPlaying
     /\ RemoveBlockStep =>
          blocks' = IF Len(blocks) > 1 THEN Without(blocks, lastOp'[2])
                    ELSE blocks]_vars

C24_Witness ==
  /\ lastOp[1] = "addBlock"
  /\ Len(blocks) = 3
  /\ lastOp[2] = blocks[1].id
  /\ blocks[2].id = nextId - 1
  /\ blocks[2].text = ""
  /\ blocks[1].audioData # NoAudio
  /\ blocks[3].audioData # NoAudio

\* C25: in every state in which no source is active the current-source
\* handle is null, and whenever the handle is not null it refers to the one
\* active source.
C25_HandleReleased ==
  /\ ActiveSources = {} => currentAudioSource = Null
  /\ currentAudioSource # Null => ActiveSources = {currentAudioSource}

\* C26: in every state, a segment that has a buffer has the buffer that was
\* generated from its current text (SetGenerated stores the text of the
\* request as the buffer's origin).
C26_BufferMatchesText ==
  \A i \in 1..Len(blocks) :
    blocks[i].audioData # NoAudio => blocks[i].audioData = blocks[i].text

\* C27: whenever a source started for segment X is active and X is still in
\* the list, X's playing flag is true.
C27_ActiveClipKeepsFlag ==
  \A s \in ActiveSources :
    sources[s].kind # "preview" =>
      \A i \in 1..Len(blocks) :
        blocks[i].id = sources[s].id => blocks[i].isPlaying

\* the runs of playAllSequentially that have started and have neither
\* finished nor been cancelled by a stopAllPlayback
LoopsInProgress ==
  {l \in 1..Len(loops) : ~loops[l].done /\ loops[l].interruptedBy = {}}

\* C28: isPlayingAll is true exactly when a playAllSequentially loop is in
\* progress, and at most one loop is in progress at any time.
C28_FlagTracksLoop ==
  /\ isPlayingAll <=> LoopsInProgress # {}
  /\ Cardinality(LoopsInProgress) <= 1

\* C29: the segment list is never empty.
C29_ListNeverEmpty == Len(blocks) >= 1

\* the step is playOne(id) for an id that is not in the list or whose
\* segment has no buffer
PlayNothingStep ==
  /\ lastOp'[1] = "playBlock"
  /\ opsLeft' = opsLeft - 1
  /\ \A i \in 1..Len(blocks) :
       blocks[i].id = lastOp'[2] => blocks[i].audioData = NoAudio

\* C30: playOne(id) on a segment without a buffer, or on an id that is not
\* in the list, has the effect of stopAll(): no source is active afterwards,
\* the handle is null, every playing flag and isPlayingAll are cleared,
\* nothing else of the segments changes, and no source is started.
C30_PlayNothingStopsEverything ==
  [][PlayNothingStep =>
       /\ \A s \in 1..Len(sources') : sources'[s].st # "playing"
       /\ currentAudioSource' = Null
       /\ isPlayingAll' = FALSE
       /\ Len(blocks') = Len(blocks)
       /\ \A j \in 1..Len(blocks) :
            blocks'[j] = [blocks[j] EXCEPT !.isPlaying = FALSE]
       /\ Len(sources') = Len(sources)]_vars

====
